---- MODULE Spec2Model ----
(***************************************************************************)
(* Click ingestion, enrichment and aggregation pipeline of the URL         *)
(* shortener: the redirect handler (redirect_url / track_click), the       *)
(* geolocation block with its provider chain, session tracking against     *)
(* the click log, and the materialized-view refresh functions.             *)
(* Time is counted in minutes since the Unix epoch.                        *)
(***************************************************************************)
EXTENDS Integers, Sequences, FiniteSets, TLC

\* ---------------------------------------------------------------- bounds
NumReqs == 2
MaxEvents == 2
NumRuns == 2
MaxRefreshes == 2
TickMins == 30
MaxOffset == 30
ProviderTimeout == 2

\* ------------------------------------------------------ program constants
TimeWindowMins == 30
RetentionDays == 90
RetentionMins == RetentionDays * 24 * 60
EpochWeekday == 3

NULL == "NULL"
\* NULL of the nullable SMALLINT columns hour_of_day and day_of_week
NULLINT == 0 - 1

Reqs == 1..NumReqs
Runs == 1..NumRuns

\* geolocation providers in their configured order
Providers == <<"ipapi.co", "ip-api.com", "ipinfo.io">>

\* the addresses track_click never sends to the resolver
SkipList == {"127.0.0.1", "localhost", "testclient"}

\* request inputs
LoopbackIPs == {"127.0.0.1", "localhost"}
TestIPs == {"testclient"}
PrivateIPs == {"10.0.0.5"}
PublicIPs == {"190.123.45.67"}
CachePublicIPs == {"190.123.45.67", "8.8.8.8", "1.1.1.1"}
UserAgents == {"Mozilla/5.0"}
Referers == {"", "https://www.youtube.com/watch?v=ABC123"}
ShortCodes == {"abc1", "zzzz"}

\* the urls table: short_code -> id of the active rows
UrlIdOf == [c \in {"abc1"} |-> "u1"]
UrlIds == {"u1"}

VARIABLES now, urls, clicks, nextEvent, req,
          mv, run, lock, hist, cache, sess, report,
          video_projects, project_links, mvp, auth

vars == <<now, urls, clicks, nextEvent, req, mv, run, lock, hist, cache, sess,
          report, video_projects, project_links, mvp, auth>>
dashVars == <<video_projects, project_links, mvp, auth>>
ingestVars == <<urls, clicks, nextEvent, req>>
aggVars == <<mv, run, lock>>

\* ------------------------------------------------------------ enrichment

\* extract_temporal_features: timestamp.hour, timestamp.weekday(), weekday() >= 5
ExtractTemporalFeatures(t) ==
    LET dow == ((t \div 1440) + EpochWeekday) % 7
    IN [hour_of_day |-> (t \div 60) % 24,
        day_of_week |-> dow,
        is_weekend  |-> dow >= 5]

TimeBucketExact(t) == t

\* time_bucket = int(timestamp / (time_window_mins * 60))
TimeBucket(t) == t \div TimeWindowMins

DigitChar == <<"0", "1", "2", "3", "4", "5", "6", "7", "8", "9">>

\* f"{time_bucket}": the decimal digits of a non-negative integer
RECURSIVE Decimal(_)
Decimal(n) == IF n < 10 THEN <<DigitChar[n + 1]>>
              ELSE Decimal(n \div 10) \o <<DigitChar[(n % 10) + 1]>>

SessionKeyWithoutBucket(ip, ua, bucket) == <<ip, "_", ua>>

\* session_key = f"{ip}_{user_agent}_{time_bucket}"
SessionKey(ip, ua, bucket) == <<ip, "_", ua, "_">> \o Decimal(bucket)

\* hashlib.sha256(session_key.encode()).hexdigest()[:16], as the digest term
\* of the string it hashes: two digests are equal iff the strings are
Sha256Hex16(key) == [sha256_16 |-> key]

\* no session id yet
NoKey == [sha256_16 |-> <<>>]

\* generate_session_id at clock time t
GenerateSessionId(ip, ua, t) == Sha256Hex16(SessionKey(ip, ua, TimeBucket(t)))

\* parse_video_referrer: platform and video id of the referring page
ParseVideoReferrer(referer) ==
    IF referer = "https://www.youtube.com/watch?v=ABC123"
    THEN [video_platform |-> "youtube", video_id |-> "ABC123"]
    ELSE [video_platform |-> NULL, video_id |-> NULL]

\* a URL as urlparse and parse_qs split it: netloc, path (its characters) and
\* the query parameters, each value a string of characters; parse_qs drops
\* parameters with a blank value, so <<>> stands for a parameter not given
NoParams == [v |-> <<>>, t |-> <<>>, list |-> <<>>, index |-> <<>>,
             feature |-> <<>>, app |-> <<>>]

SkoolUrl == [netloc |-> "skool.com", path |-> <<"/", "c">>, query |-> NoParams]

WatchUrl == [netloc |-> "www.youtube.com", path |-> <<"/", "w">>,
             query |-> [NoParams EXCEPT !.v = <<"A", "B", "C">>, !.t = <<"1", "2", "0">>,
                                        !.list = <<"P", "L">>, !.feature = <<"s", "h">>]]

ShortUrlSuffixed == [netloc |-> "youtu.be", path |-> <<"/", "A", "B", "C">>,
                     query |-> [NoParams EXCEPT !.t = <<"9", "0", "s">>]]

ShortUrlPlain == [netloc |-> "youtu.be", path |-> <<"/", "A", "B", "C">>,
                  query |-> [NoParams EXCEPT !.feature = <<"s", "h">>]]

\* params.get(name, [None])[0]
Param(params, name) == params[name]

DigitValue(c) == CHOOSE d \in 0..9 : DigitChar[d + 1] = c

IsDigits(str) == str # <<>> /\ \A i \in 1..Len(str) : \E d \in 0..9 : DigitChar[d + 1] = str[i]

RECURSIVE DigitsValue(_)
DigitsValue(str) == IF str = <<>> THEN 0
                    ELSE 10 * DigitsValue(SubSeq(str, 1, Len(str) - 1))
                         + DigitValue(str[Len(str)])

\* int(params.get(name, [default])[0]): ValueError unless the value is a
\* decimal integer
IntOf(str, default) ==
    IF str = <<>> THEN [raised |-> FALSE, value |-> default]
    ELSE IF IsDigits(str) THEN [raised |-> FALSE, value |-> DigitsValue(str)]
    ELSE IF Head(str) \in {"+", "-"} /\ IsDigits(Tail(str))
    THEN [raised |-> FALSE,
          value |-> IF Head(str) = "-" THEN 0 - DigitsValue(Tail(str))
                    ELSE DigitsValue(Tail(str))]
    ELSE [raised |-> TRUE, value |-> default]

\* youtube_metadata = {}
EmptyMetadata == [present |-> FALSE, raised |-> FALSE, video_id |-> <<>>,
                  video_timestamp |-> 0, playlist_id |-> <<>>, yt_index |-> 0,
                  yt_feature |-> <<>>, yt_app |-> <<>>]

\* parse_youtube_url: raised when one of the int() calls raises
ParseYoutubeUrl(url) ==
    LET t == IntOf(Param(url.query, "t"), 0)
        index == IntOf(Param(url.query, "index"), 0)
    IN [present         |-> TRUE,
        raised          |-> t.raised \/ index.raised,
        video_id        |-> IF url.netloc \in {"youtu.be", "www.youtu.be"} THEN Tail(url.path)
                            ELSE Param(url.query, "v"),
        video_timestamp |-> t.value,
        playlist_id     |-> Param(url.query, "list"),
        yt_index        |-> index.value,
        yt_feature      |-> Param(url.query, "feature"),
        yt_app          |-> Param(url.query, "app")]

\* youtube_metadata.get('video_timestamp', 0)
VideoTimestamp(meta) == IF meta.present THEN meta.video_timestamp ELSE 0

\* rows of the click log written before position n that carry session id sid
PriorClicks(log, sid) == {i \in 1..Len(log) : log[i].session_id = sid}

\* track_session: first click iff the log holds no row of this session yet
TrackSession(log, sid) ==
    [is_first_click    |-> PriorClicks(log, sid) = {},
     clicks_in_session |-> Cardinality(PriorClicks(log, sid)) + 1]

\* ------------------------------------------------------------ geolocation

EmptyLocation == [present |-> FALSE, country_name |-> NULL, provider |-> NULL]

PassesGeoGuardForTests(ip) == ip # "" /\ ip \notin {"127.0.0.1", "localhost"}

\* if ip_address and ip_address not in ['127.0.0.1', 'localhost', 'testclient']
PassesGeoGuard(ip) == ip # "" /\ ip \notin SkipList

\* get_ip_location answers loopback and private addresses without any provider
ShortCircuits(ip) == ip \in LoopbackIPs \cup PrivateIPs

ShortCircuitResult ==
    [raised |-> FALSE,
     data   |-> [present |-> TRUE, country_name |-> "Unknown", provider |-> "none"]]

\* what a provider answers for a public address when it answers
CountryOf(ip) == CASE ip = "190.123.45.67" -> "Mexico"
                   [] ip = "8.8.8.8" -> "United States"
                   [] OTHER -> "Australia"

\* the LRU cache of get_ip_location, least recently used entry first; its
\* capacity (10,000 in the program) is scaled to what the requests can overflow
CacheCapacity == MaxEvents - 1

CacheKeyShared(ip) == "ip"

\* lookups are cached by IP
CacheKey(ip) == ip

CacheHas(c, ip) == \E i \in 1..Len(c) : c[i].key = CacheKey(ip)

CacheEntry(c, ip) == c[CHOOSE i \in 1..Len(c) : c[i].key = CacheKey(ip)]

\* a hit makes the entry the most recently used one
CacheGet(c, ip) ==
    Append(SelectSeq(c, LAMBDA e : e.key # CacheKey(ip)), CacheEntry(c, ip))

CachePutNoEvict(c, ip, data) ==
    Append(SelectSeq(c, LAMBDA e : e.key # CacheKey(ip)),
           [key |-> CacheKey(ip), ip |-> ip, data |-> data])

\* a successful lookup is stored as the most recently used entry; storing into
\* a full cache evicts the least recently used one
CachePut(c, ip, data) ==
    LET stored == Append(SelectSeq(c, LAMBDA e : e.key # CacheKey(ip)),
                         [key |-> CacheKey(ip), ip |-> ip, data |-> data])
    IN IF Len(stored) > CacheCapacity THEN Tail(stored) ELSE stored

NextProviderSkipping(n) == n + 2

\* provider n+1 follows provider n
NextProvider(n) == n + 1

\* the chain stops at the first success
StopsOnSuccess(outcome) == outcome = "ok"

ExhaustedResultRaising ==
    [raised |-> TRUE,
     data   |-> [present |-> FALSE, country_name |-> NULL, provider |-> NULL]]

\* get_ip_location with every provider exhausted
ExhaustedResult ==
    [raised |-> FALSE,
     data   |-> [present |-> TRUE, country_name |-> "Unknown", provider |-> "none"]]

\* seconds a provider takes to answer; Hang is a provider that never answers
Hang == 10 * ProviderTimeout
Latencies == {1, ProviderTimeout, Hang}

TimedCallUnbounded(lat) == lat

\* every provider call is given up after ProviderTimeout seconds
TimedCall(lat) == IF lat > ProviderTimeout THEN ProviderTimeout ELSE lat

\* the longest get_ip_location can take: every provider of the chain timing out
GeoBudget == Len(Providers) * ProviderTimeout

\* the try/except around get_ip_location in track_click
LocationAfterCall(res) ==
    IF res.raised
    THEN [present |-> TRUE, country_name |-> "Unknown", provider |-> "fallback"]
    ELSE res.data

GeoCountryOmitted(loc) == IF loc.present THEN loc.country_name ELSE NULL

\* location_data.get('country_name', 'Unknown') / .get('provider', 'none')
GeoCountry(loc) == IF loc.present THEN loc.country_name ELSE "Unknown"
GeoProvider(loc) == IF loc.present THEN loc.provider ELSE "none"

\* location_data.get('country_code') and .get('city') of the answer
CountryCode(country) == CASE country = "Mexico" -> "MX"
                          [] country = "United States" -> "US"
                          [] country = "Australia" -> "AU"
                          [] OTHER -> NULL

City(country) == CASE country = "Mexico" -> "Mexico City"
                   [] country = "United States" -> "Mountain View"
                   [] country = "Australia" -> "Sydney"
                   [] OTHER -> NULL

\* ------------------------------------------------------------ table locks

\* PostgreSQL's lock conflict table, for the modes the statements here take
LockConflicts(held, wanted) ==
    \/ held = "ACCESS EXCLUSIVE" /\ wanted # "NONE"
    \/ wanted = "ACCESS EXCLUSIVE" /\ held # "NONE"
    \/ held = "EXCLUSIVE" /\ wanted \in {"ROW EXCLUSIVE", "SHARE", "EXCLUSIVE"}
    \/ held = "SHARE" /\ wanted \in {"ROW EXCLUSIVE", "EXCLUSIVE"}
    \/ held = "ROW EXCLUSIVE" /\ wanted \in {"SHARE", "EXCLUSIVE"}

ClicksLockShare(pc) == IF pc \in {"heatmap", "sources"} THEN "SHARE" ELSE "NONE"

\* a REFRESH reads clicks through the view's SELECT: ACCESS SHARE on clicks,
\* held from the statement to the end of the transaction
ClicksLock(pc) == IF pc \in {"heatmap", "sources"} THEN "ACCESS SHARE" ELSE "NONE"

\* INSERT INTO clicks takes ROW EXCLUSIVE on clicks
InsertLock == "ROW EXCLUSIVE"

\* ---------------------------------------------------------------- state

IdleReq == [pc |-> "idle", event |-> 0, code |-> "", ip |-> "", ua |-> "",
            referer |-> "", url_id |-> NULL, prov |-> 0, calls |-> <<>>,
            location |-> EmptyLocation, session_id |-> NoKey,
            is_first_click |-> FALSE, clicks_in_session |-> 0,
            tracked_at |-> 0, response |-> "", failed |-> "", waited |-> 0,
            hit |-> "", meta |-> EmptyMetadata, at |-> ""]

\* a view's contents, tagged with the number of the refresh that computed them
EmptyView == [gen |-> 0, rows |-> {}]
\* the two calls of generate_session_id under comparison
IdleSess == [ip |-> "", ua |-> "", t1 |-> 0, t2 |-> 0, calls |-> 0,
             key1 |-> NoKey, key2 |-> NoKey]

\* the rows a dashboard query returned, and the short code it asked for
NoReport == [asked |-> FALSE, short_code |-> "", rows |-> {}]

EmptyRollup == [heatmap |-> EmptyView, sources |-> EmptyView]

\* a nullable TEXT column
NullText == [null |-> TRUE, text |-> <<>>]
Text(str) == [null |-> FALSE, text |-> str]

Projects == {"p1"}

\* a video_projects row as the migration of a folder leaves it
MigratedProject == [youtube_url |-> NullText, youtube_video_id |-> NullText]

\* mv_video_project_performance before its first refresh, and whether the
\* tables it reads have changed since the last one
NoPerformance == [fresh |-> FALSE, rows |-> {}]

\* the browser: the stored token and the calls of login() and logout() in progress
SignedOut == [token |-> NULL, login |-> "idle", logout |-> "idle", sent |-> NULL,
              outcome |-> "", had |-> FALSE]
IdleRun == [pc |-> "idle", gen |-> 0, txNow |-> 0, heatmap |-> EmptyView, sources |-> EmptyView,
            overlapped |-> FALSE]

Init ==
    /\ now = 0
    /\ urls = [u \in UrlIds |-> [click_count |-> 0, last_clicked_at |-> NULL,
                               is_active |-> TRUE, original_url |-> SkoolUrl]]
    /\ clicks = <<>>
    /\ nextEvent = 1
    /\ req = [r \in Reqs |-> IdleReq]
    /\ mv = EmptyRollup
    /\ run = [k \in Runs |-> IdleRun]
    /\ lock = [heatmap |-> 0, sources |-> 0]
    /\ hist = [ins |-> FALSE, insRun |-> FALSE, lastTxNow |-> 0,
               calls |-> 0, abortedGen |-> 0, lastOverlapped |-> FALSE,
               rebuiltGen |-> 0, uncounted |-> FALSE]
    /\ cache = <<>>
    /\ sess = IdleSess
    /\ report = NoReport
    /\ video_projects = [p \in Projects |-> MigratedProject]
    /\ project_links = {}
    /\ mvp = NoPerformance
    /\ auth = SignedOut

\* an insert into clicks waits while a transaction holds a conflicting lock
InsertBlocked == \E k \in Runs : LockConflicts(ClicksLock(run[k].pc), InsertLock)

\* ------------------------------------------------------- redirect handler

\* url_repo.get_by_short_code: the active row of the short code, if any
Resolves(code) == code \in DOMAIN UrlIdOf /\ urls[UrlIdOf[code]].is_active

\* GET /{short_code}: url_repo.get_by_short_code, 404 when there is no row
Lookup(r, codes, ips, referers) ==
    /\ req[r].pc = "idle"
    /\ nextEvent <= MaxEvents
    /\ \E code \in codes, ip \in ips, ua \in UserAgents, referer \in referers :
         req' = [req EXCEPT ![r] =
                   IF Resolves(code)
                   THEN [IdleReq EXCEPT !.pc = "geo", !.event = nextEvent, !.code = code,
                                        !.ip = ip, !.ua = ua, !.referer = referer,
                                        !.url_id = UrlIdOf[code]]
                   ELSE [IdleReq EXCEPT !.pc = "done", !.event = nextEvent, !.code = code,
                                        !.ip = ip, !.ua = ua, !.referer = referer,
                                        !.response = "404"]]
    /\ nextEvent' = nextEvent + 1
    /\ UNCHANGED <<now, urls, clicks, aggVars, hist, cache, sess, report, dashVars>>

\* track_click, geolocation block: skipped addresses keep location_data = {},
\* the others enter get_ip_location, which answers from its cache when it can
GeoGuard(r) ==
    /\ req[r].pc = "geo"
    /\ LET ip == req[r].ip
           cached == PassesGeoGuard(ip) /\ ~ShortCircuits(ip) /\ CacheHas(cache, ip)
       IN /\ req' = [req EXCEPT ![r] =
                 IF ~PassesGeoGuard(ip)
                 THEN [@ EXCEPT !.pc = "enrich", !.location = EmptyLocation]
                 ELSE IF ShortCircuits(ip)
                 THEN [@ EXCEPT !.pc = "enrich",
                                !.location = LocationAfterCall(ShortCircuitResult)]
                 ELSE IF cached
                 THEN [@ EXCEPT !.pc = "enrich", !.hit = CacheEntry(cache, ip).ip,
                                !.location = LocationAfterCall(
                                    [raised |-> FALSE, data |-> CacheEntry(cache, ip).data])]
                 ELSE [@ EXCEPT !.pc = "resolving", !.prov = 1]]
          /\ cache' = IF cached THEN CacheGet(cache, ip) ELSE cache
    /\ UNCHANGED <<now, urls, clicks, nextEvent, aggVars, hist, sess, report, dashVars>>

\* get_ip_location: one call to the current provider of the chain, which
\* answers, fails, or is given up at the timeout
ProviderCall(r, lats) ==
    /\ req[r].pc = "resolving"
    /\ \E lat \in lats, answer \in {"ok", "error"} :
         LET n == req[r].prov
             outcome == IF lat > ProviderTimeout THEN "timeout" ELSE answer
             called == Append(req[r].calls, [provider |-> Providers[n], outcome |-> outcome,
                                             latency |-> lat])
             spent == req[r].waited + TimedCall(lat)
             data == [present |-> TRUE, country_name |-> CountryOf(req[r].ip),
                      provider |-> Providers[n]]
         IN /\ req' = [req EXCEPT ![r] =
                IF StopsOnSuccess(outcome)
                THEN [@ EXCEPT !.pc = "enrich", !.calls = called, !.waited = spent,
                               !.location = LocationAfterCall(
                                   [raised |-> FALSE, data |-> data])]
                ELSE IF NextProvider(n) <= Len(Providers)
                THEN [@ EXCEPT !.calls = called, !.waited = spent, !.prov = NextProvider(n)]
                ELSE [@ EXCEPT !.pc = "enrich", !.calls = called, !.waited = spent,
                               !.location = LocationAfterCall(ExhaustedResult)]]
            /\ cache' = IF StopsOnSuccess(outcome) THEN CachePut(cache, req[r].ip, data)
                        ELSE cache
    /\ UNCHANGED <<now, urls, clicks, nextEvent, aggVars, hist, sess, report, dashVars>>

\* youtube_metadata = parse_youtube_url(url_record['original_url'])
YoutubeMetadata(id) == ParseYoutubeUrl(urls[id].original_url)

LogWhileEnrichingPartial(log, q) == Append(log, [event |-> q.event])

\* track_click assembles the Click in memory: it writes nothing to clicks
LogWhileEnriching(log, q) == log

\* track_click, after geolocation: YouTube metadata of the destination, session
\* id and session metrics at utcnow(); an exception of parse_youtube_url is
\* caught nowhere and ends the request
Enrich(r) ==
    /\ req[r].pc = "enrich"
    /\ LET meta == YoutubeMetadata(req[r].url_id)
           sid == GenerateSessionId(req[r].ip, req[r].ua, now)
           m == TrackSession(clicks, sid)
       IN req' = [req EXCEPT ![r] =
                    IF meta.raised
                    THEN [@ EXCEPT !.pc = "done", !.response = "500", !.failed = "enrich"]
                    ELSE [@ EXCEPT !.pc = "create", !.meta = meta, !.session_id = sid,
                                   !.is_first_click = m.is_first_click,
                                   !.clicks_in_session = m.clicks_in_session,
                                   !.tracked_at = now]]
    /\ clicks' = LogWhileEnriching(clicks, req[r])
    /\ UNCHANGED <<now, urls, nextEvent, aggVars, hist, cache, sess, report, dashVars>>

IsReturningVisitorDefault(first) == FALSE

\* is_returning_visitor=not session_metrics['is_first_click']
IsReturningVisitor(first) == ~first

\* the Click object assembled from the enrichment results
ClickRow(q, t) ==
    LET tf == ExtractTemporalFeatures(q.tracked_at)
        v == ParseVideoReferrer(q.referer)
    IN [event |-> q.event, url_id |-> q.url_id, short_code |-> q.code,
        ip_address |-> q.ip, user_agent |-> q.ua, referer |-> q.referer,
        country_name |-> GeoCountry(q.location), provider |-> GeoProvider(q.location),
        country_code |-> CountryCode(GeoCountry(q.location)),
        city |-> City(GeoCountry(q.location)),
        video_platform |-> v.video_platform, video_id |-> v.video_id,
        video_timestamp |-> VideoTimestamp(q.meta),
        playlist_id |-> q.meta.playlist_id, yt_feature |-> q.meta.yt_feature,
        hour_of_day |-> tf.hour_of_day, day_of_week |-> tf.day_of_week,
        is_weekend |-> tf.is_weekend,
        session_id |-> q.session_id, is_first_click |-> q.is_first_click,
        is_returning_visitor |-> IsReturningVisitor(q.is_first_click),
        clicks_in_session |-> q.clicks_in_session,
        clicked_at |-> t]

ClickRepoCreateTwice(log, row) == Append(Append(log, row), row)

\* click_repo.create: one insert into clicks
ClickRepoCreate(log, row) == Append(log, row)

\* hist.ins / hist.insRun: a row was inserted since the snapshot of the last
\* committed refresh / of the refresh now holding the lock
NoteInsert == [hist EXCEPT !.ins = TRUE, !.insRun = TRUE]

Create(r) ==
    /\ req[r].pc = "create"
    /\ ~InsertBlocked
    /\ clicks' = ClickRepoCreate(clicks, ClickRow(req[r], now))
    /\ req' = [req EXCEPT ![r].pc = "count"]
    /\ hist' = NoteInsert
    /\ UNCHANGED <<now, urls, nextEvent, aggVars, cache, sess, report, dashVars>>

\* click_repo.create raises: nothing catches it in redirect_url
CreateFail(r) ==
    /\ req[r].pc = "create"
    /\ req' = [req EXCEPT ![r].pc = "done", ![r].response = "500",
                          ![r].failed = "create"]
    /\ UNCHANGED <<now, urls, clicks, nextEvent, aggVars, hist, cache, sess, report, dashVars>>

IncrementClickCountTimeOnly(u, id, t) ==
    [u EXCEPT ![id] = [@ EXCEPT !.last_clicked_at = t]]

\* increment_click_count(p_url_id): one UPDATE, click_count = click_count + 1
IncrementClickCount(u, id, t) ==
    [u EXCEPT ![id] = [@ EXCEPT !.click_count = @ + 1, !.last_clicked_at = t]]

\* url_repo.update_click_count
Count(r) ==
    /\ req[r].pc = "count"
    /\ urls' = IncrementClickCount(urls, req[r].url_id, now)
    /\ req' = [req EXCEPT ![r].pc = "respond"]
    /\ UNCHANGED <<now, clicks, nextEvent, aggVars, hist, cache, sess, report, dashVars>>

\* hist.uncounted: a request ended between its insert and its counter update
NoteUncounted(h) == [h EXCEPT !.uncounted = TRUE]

\* url_repo.update_click_count raises
CountFail(r) ==
    /\ req[r].pc = "count"
    /\ req' = [req EXCEPT ![r].pc = "done", ![r].response = "500",
                          ![r].failed = "count"]
    /\ hist' = NoteUncounted(hist)
    /\ UNCHANGED <<now, urls, clicks, nextEvent, aggVars, cache, sess, report, dashVars>>

\* return RedirectResponse(url_record['original_url'], status_code=301)
Respond(r) ==
    /\ req[r].pc = "respond"
    /\ req' = [req EXCEPT ![r].pc = "done", ![r].response = "301"]
    /\ UNCHANGED <<now, urls, clicks, nextEvent, aggVars, hist, cache, sess, report, dashVars>>

\* the response has been delivered; the worker takes the next request
Finish(r) ==
    /\ req[r].pc = "done"
    /\ req' = [req EXCEPT ![r] = IdleReq]
    /\ UNCHANGED <<now, urls, clicks, nextEvent, aggVars, hist, cache, sess, report, dashVars>>

\* the server clock advances
Tick ==
    /\ (now % RetentionMins) + TickMins <= MaxOffset
    /\ now' = now + TickMins
    /\ UNCHANGED <<ingestVars, aggVars, hist, cache, sess, report, dashVars>>

Handler(r, codes, ips, referers) ==
    \/ Lookup(r, codes, ips, referers)
    \/ GeoGuard(r)
    \/ Enrich(r)
    \/ Create(r)
    \/ CreateFail(r)
    \/ Count(r)
    \/ CountFail(r)
    \/ Respond(r)
    \/ Finish(r)

\* GET /{short_code} for an existing short code, from an address that reaches
\* no provider, run from the lookup to the response with no other step in between
RedirectUrl(ips, referers) ==
    /\ nextEvent <= MaxEvents
    /\ ~InsertBlocked
    /\ \E code \in DOMAIN UrlIdOf, ip \in ips, ua \in UserAgents, referer \in referers,
          raises \in {"", "create", "count"} :
         LET sid == GenerateSessionId(ip, ua, now)
             m == TrackSession(clicks, sid)
             q == [IdleReq EXCEPT !.event = nextEvent, !.code = code, !.ip = ip,
                                  !.ua = ua, !.referer = referer, !.url_id = UrlIdOf[code],
                                  !.location = IF PassesGeoGuard(ip)
                                               THEN LocationAfterCall(ShortCircuitResult)
                                               ELSE EmptyLocation,
                                  !.meta = YoutubeMetadata(UrlIdOf[code]),
                                  !.session_id = sid,
                                  !.is_first_click = m.is_first_click,
                                  !.clicks_in_session = m.clicks_in_session,
                                  !.tracked_at = now]
             failed == IF q.meta.raised THEN "enrich" ELSE raises
         IN /\ Resolves(code)
            /\ ~PassesGeoGuard(ip) \/ ShortCircuits(ip)
            /\ clicks' = IF failed \in {"enrich", "create"} THEN clicks
                         ELSE ClickRepoCreate(clicks, ClickRow(q, now))
            /\ hist' = IF failed \in {"enrich", "create"} THEN hist
                       ELSE IF failed = "count" THEN NoteUncounted(NoteInsert)
                       ELSE NoteInsert
            /\ urls' = IF failed = "" THEN IncrementClickCount(urls, q.url_id, now)
                       ELSE urls
    /\ nextEvent' = nextEvent + 1
    /\ UNCHANGED <<now, req, aggVars, cache, sess, report, dashVars>>

ClicksAfterCascade(log, id) == SelectSeq(log, LAMBDA row : row.url_id # id)

\* url_repo.delete is a soft delete: the urls row stays, and so do its clicks
ClicksAfterDelete(log, id) == log

\* DELETE /{short_code}
DeleteUrl ==
    /\ \E code \in DOMAIN UrlIdOf :
         /\ Resolves(code)
         /\ urls' = [urls EXCEPT ![UrlIdOf[code]].is_active = FALSE]
         /\ clicks' = ClicksAfterDelete(clicks, UrlIdOf[code])
    /\ UNCHANGED <<now, nextEvent, req, aggVars, hist, cache, sess, report, dashVars>>

\* concurrent redirect requests from addresses on the skip list
Next ==
    \/ \E r \in Reqs : Handler(r, ShortCodes, {"127.0.0.1", "testclient"}, {""})
    \/ Tick

Spec == Init /\ [][Next]_vars

\* one request at a time, from any address, through the provider chain
NextGeo ==
    \/ Handler(1, ShortCodes, LoopbackIPs \cup TestIPs \cup PrivateIPs \cup PublicIPs, Referers)
    \/ ProviderCall(1, Latencies)

SpecGeo == Init /\ [][NextGeo]_vars

\* track_click after the geolocation block and the rest of redirect_url: no
\* await in between, so the requests sharing the event loop and its cache see
\* it as one step
TrackAndRespond(r) ==
    /\ req[r].pc = "enrich"
    /\ ~InsertBlocked
    /\ \E raises \in {"", "create", "count"} :
         LET sid == GenerateSessionId(req[r].ip, req[r].ua, now)
             m == TrackSession(clicks, sid)
             q == [req[r] EXCEPT !.meta = YoutubeMetadata(req[r].url_id),
                                 !.session_id = sid,
                                 !.is_first_click = m.is_first_click,
                                 !.clicks_in_session = m.clicks_in_session,
                                 !.tracked_at = now]
             failed == IF q.meta.raised THEN "enrich" ELSE raises
         IN /\ clicks' = IF failed \in {"enrich", "create"} THEN clicks
                         ELSE ClickRepoCreate(clicks, ClickRow(q, now))
            /\ hist' = IF failed \in {"enrich", "create"} THEN hist
                       ELSE IF failed = "count" THEN NoteUncounted(NoteInsert)
                       ELSE NoteInsert
            /\ urls' = IF failed = "" THEN IncrementClickCount(urls, q.url_id, now)
                       ELSE urls
    /\ req' = [req EXCEPT ![r] = IdleReq]
    /\ UNCHANGED <<now, nextEvent, aggVars, cache, sess, report, dashVars>>

\* concurrent requests of one server process from public addresses, through
\* the cache and the provider chain
NextCache ==
    \E r \in Reqs : \/ Lookup(r, {"abc1"}, CachePublicIPs, {""})
                    \/ GeoGuard(r)
                    \/ ProviderCall(r, {1})
                    \/ TrackAndRespond(r)

SpecCache == Init /\ [][NextCache]_vars

\* --------------------------------------------- enrichment of one request

\* the link was created with one of the destinations
InitEnrich ==
    /\ now = 0
    /\ \E url \in {SkoolUrl, WatchUrl, ShortUrlSuffixed, ShortUrlPlain} :
         urls = [u \in UrlIds |-> [click_count |-> 0, last_clicked_at |-> NULL,
                                  is_active |-> TRUE, original_url |-> url]]
    /\ clicks = <<>>
    /\ nextEvent = 1
    /\ req = [r \in Reqs |-> IdleReq]
    /\ mv = EmptyRollup
    /\ run = [k \in Runs |-> IdleRun]
    /\ lock = [heatmap |-> 0, sources |-> 0]
    /\ hist = [ins |-> FALSE, insRun |-> FALSE, lastTxNow |-> 0,
               calls |-> 0, abortedGen |-> 0, lastOverlapped |-> FALSE,
               rebuiltGen |-> 0, uncounted |-> FALSE]
    /\ cache = <<>>
    /\ sess = IdleSess
    /\ report = NoReport
    /\ video_projects = [p \in Projects |-> MigratedProject]
    /\ project_links = {}
    /\ mvp = NoPerformance
    /\ auth = SignedOut

InFlight == {"geo", "resolving", "enrich", "create", "count", "respond"}

\* the server process is killed: its requests end where they are, with no
\* response, and its in-process cache is gone; the database keeps what was
\* committed
Terminate ==
    /\ \E r \in Reqs : req[r].pc \in InFlight
    /\ req' = [r \in Reqs |->
                 IF req[r].pc \in InFlight
                 THEN [req[r] EXCEPT !.pc = "done", !.failed = "terminated",
                                     !.at = req[r].pc]
                 ELSE req[r]]
    /\ cache' = <<>>
    /\ hist' = IF \E r \in Reqs : req[r].pc = "count" THEN NoteUncounted(hist) ELSE hist
    /\ UNCHANGED <<now, urls, clicks, nextEvent, aggVars, sess, report, dashVars>>

\* one request at a time to a link of any destination, and process kills
NextEnrich ==
    \/ Handler(1, {"abc1"}, {"127.0.0.1", "190.123.45.67"},
               Referers \cup {"http://[malformed"})
    \/ ProviderCall(1, {1})
    \/ Terminate

SpecEnrich == InitEnrich /\ [][NextEnrich]_vars

\* ------------------------------------------------- session key generator

SessionBuckets == {0, 1, 2, 9, 10, 11, 100, 101}
SessionTimes == {b * TimeWindowMins + o : b \in SessionBuckets, o \in {0, 1, TimeWindowMins - 1}}
SessionIPs == LoopbackIPs \cup TestIPs \cup PrivateIPs \cup PublicIPs
SessionUserAgents == UserAgents \cup {"curl/8.0"}

\* one visitor and the clock times of two calls of generate_session_id
InitSession ==
    /\ now = 0
    /\ urls = [u \in UrlIds |-> [click_count |-> 0, last_clicked_at |-> NULL,
                               is_active |-> TRUE, original_url |-> SkoolUrl]]
    /\ clicks = <<>>
    /\ nextEvent = 1
    /\ req = [r \in Reqs |-> IdleReq]
    /\ mv = EmptyRollup
    /\ run = [k \in Runs |-> IdleRun]
    /\ lock = [heatmap |-> 0, sources |-> 0]
    /\ hist = [ins |-> FALSE, insRun |-> FALSE, lastTxNow |-> 0,
               calls |-> 0, abortedGen |-> 0, lastOverlapped |-> FALSE,
               rebuiltGen |-> 0, uncounted |-> FALSE]
    /\ cache = <<>>
    /\ report = NoReport
    /\ video_projects = [p \in Projects |-> MigratedProject]
    /\ project_links = {}
    /\ mvp = NoPerformance
    /\ auth = SignedOut
    /\ \E ip \in SessionIPs, ua \in SessionUserAgents, t1 \in SessionTimes, t2 \in SessionTimes :
         sess = [IdleSess EXCEPT !.ip = ip, !.ua = ua, !.t1 = t1, !.t2 = t2]

\* session_id_new = gen_session_id(ip_address, user_agent, ...) at time t1
GenerateFirst ==
    /\ sess.calls = 0
    /\ sess' = [sess EXCEPT !.calls = 1,
                            !.key1 = GenerateSessionId(sess.ip, sess.ua, sess.t1)]
    /\ UNCHANGED <<now, ingestVars, aggVars, hist, cache, report, dashVars>>

\* the same call for the same visitor at time t2
GenerateSecond ==
    /\ sess.calls = 1
    /\ sess' = [sess EXCEPT !.calls = 2,
                            !.key2 = GenerateSessionId(sess.ip, sess.ua, sess.t2)]
    /\ UNCHANGED <<now, ingestVars, aggVars, hist, cache, report, dashVars>>

NextSession == GenerateFirst \/ GenerateSecond

SpecSession == InitSession /\ [][NextSession]_vars

\* ------------------------------------------------------ geographic rollup

HasGeoAlways(row) == TRUE

\* WHERE country_name IS NOT NULL
HasGeo(row) == row.country_name # NULL

\* ROUND(COUNT(*)::DECIMAL / SUM(COUNT(*)) OVER (PARTITION BY short_code) * 100, 2),
\* in hundredths of a percent
Percentage(count, total) == (2 * count * 10000 + total) \div (2 * total)

\* the view geographic_analytics: GROUP BY short_code, country_name,
\* country_code, city over the rows with a country name
GeographicAnalytics(log) ==
    LET W == {i \in 1..Len(log) : HasGeo(log[i])}
        G(j) == {i \in W : /\ log[i].short_code = log[j].short_code
                           /\ log[i].country_name = log[j].country_name
                           /\ log[i].country_code = log[j].country_code
                           /\ log[i].city = log[j].city}
        P(j) == {i \in W : log[i].short_code = log[j].short_code}
    IN {[short_code   |-> log[j].short_code,
         country_name |-> log[j].country_name,
         country_code |-> log[j].country_code,
         city         |-> log[j].city,
         clicks       |-> Cardinality(G(j)),
         unique_users |-> Cardinality({log[i].ip_address : i \in G(j)}),
         percentage   |-> Percentage(Cardinality(G(j)), Cardinality(P(j)))] : j \in W}

ReportCodes == {"abc1", "abc2"}
ReportCountries == {NULL, "Unknown", "Mexico"}
ReportCities == {NULL, "Mexico City", "Monterrey"}
ReportTimes == {0, TickMins}

\* a row of clicks as some version of the pipeline wrote it: the geolocation
\* columns are nullable and older rows carry no country
StoredRow(e, code, country, city, t) ==
    [ClickRow([IdleReq EXCEPT !.event = e, !.code = code, !.ip = "190.123.45.67",
                              !.ua = "Mozilla/5.0", !.tracked_at = t], t)
        EXCEPT !.country_name = country,
               !.country_code = CountryCode(country),
               !.city = IF country = "Mexico" THEN city ELSE NULL]

\* a click is stored; what an earlier query returned is no longer current
StoreClick ==
    /\ nextEvent <= MaxEvents
    /\ \E code \in ReportCodes, country \in ReportCountries, city \in ReportCities,
          t \in ReportTimes :
         /\ t >= now
         /\ now' = t
         /\ clicks' = ClickRepoCreate(clicks, StoredRow(nextEvent, code, country, city, t))
    /\ nextEvent' = nextEvent + 1
    /\ report' = NoReport
    /\ UNCHANGED <<urls, req, aggVars, hist, cache, sess, dashVars>>

\* SELECT * FROM geographic_analytics WHERE short_code = code
QueryGeographicAnalytics ==
    /\ \E code \in ReportCodes :
         report' = [asked |-> TRUE, short_code |-> code,
                    rows |-> {x \in GeographicAnalytics(clicks) : x.short_code = code}]
    /\ UNCHANGED <<now, ingestVars, aggVars, hist, cache, sess, dashVars>>

NextReport == StoreClick \/ QueryGeographicAnalytics

SpecReport == Init /\ [][NextReport]_vars

\* ------------------------------------------------------------- aggregation

\* clicked_at > NOW() - INTERVAL '90 days'
InWindow(log, t) == {i \in 1..Len(log) : log[i].clicked_at > t - RetentionMins}

Max(S) == CHOOSE x \in S : \A y \in S : y <= x
Min(S) == CHOOSE x \in S : \A y \in S : x <= y

\* mv_hour_heatmap: GROUP BY day_of_week, hour_of_day over the last 90 days
HeatmapOf(log, t) ==
    LET W == {i \in InWindow(log, t) :
                 log[i].hour_of_day # NULLINT /\ log[i].day_of_week # NULLINT}
        G(d, h) == {i \in W : log[i].day_of_week = d /\ log[i].hour_of_day = h}
    IN {[day_of_week        |-> log[j].day_of_week,
         hour_of_day        |-> log[j].hour_of_day,
         total_clicks       |-> Cardinality(G(log[j].day_of_week, log[j].hour_of_day)),
         unique_visitors    |-> Cardinality({log[i].session_id :
                                   i \in G(log[j].day_of_week, log[j].hour_of_day)}),
         new_visitors       |-> Cardinality({i \in G(log[j].day_of_week, log[j].hour_of_day) :
                                   log[i].is_first_click}),
         returning_visitors |-> Cardinality({i \in G(log[j].day_of_week, log[j].hour_of_day) :
                                   log[i].is_returning_visitor})] : j \in W}

\* mv_video_sources: GROUP BY video_platform, video_id over the last 90 days
VideoSourcesOf(log, t) ==
    LET W == {i \in InWindow(log, t) :
                 log[i].video_id # NULL /\ log[i].video_platform # NULL}
        G(p, v) == {i \in W : log[i].video_platform = p /\ log[i].video_id = v}
    IN {[video_platform  |-> log[j].video_platform,
         video_id        |-> log[j].video_id,
         total_clicks    |-> Cardinality(G(log[j].video_platform, log[j].video_id)),
         unique_viewers  |-> Cardinality({log[i].session_id :
                                i \in G(log[j].video_platform, log[j].video_id)}),
         unique_ips      |-> Cardinality({log[i].ip_address :
                                i \in G(log[j].video_platform, log[j].video_id)}),
         new_visitor_clicks |-> Cardinality({i \in G(log[j].video_platform, log[j].video_id) :
                                log[i].is_first_click}),
         returning_visitor_clicks |->
                            Cardinality({i \in G(log[j].video_platform, log[j].video_id) :
                                log[i].is_returning_visitor}),
         last_clicked_at |-> Max({log[i].clicked_at :
                                i \in G(log[j].video_platform, log[j].video_id)}),
         first_clicked_at |-> Min({log[i].clicked_at :
                                i \in G(log[j].video_platform, log[j].video_id)})] : j \in W}

PublishedAtOnce(pub, view, new) == [pub EXCEPT ![view] = new]

\* the function body runs in the caller's transaction: what a REFRESH statement
\* computed is not visible to other sessions before the transaction commits
PublishedAfterStatement(pub, view, new) == pub

PublishedAccumulating(pub, tx) ==
    LET old(x) == {o \in pub.heatmap.rows : o.day_of_week = x.day_of_week
                                             /\ o.hour_of_day = x.hour_of_day}
        carried(x) == IF old(x) = {} THEN 0 ELSE (CHOOSE o \in old(x) : TRUE).total_clicks
    IN [heatmap |-> [gen  |-> tx.heatmap.gen,
                     rows |-> {[x EXCEPT !.total_clicks = @ + carried(x)] :
                                  x \in tx.heatmap.rows}],
        sources |-> tx.sources]

\* commit: both refreshed views replace the published ones together
PublishedAfterCommit(pub, tx) == [heatmap |-> tx.heatmap, sources |-> tx.sources]

PublishedPartAfterAbort(pub, tx) ==
    [heatmap |-> IF tx.pc \in {"heatmap", "sources"} THEN tx.heatmap ELSE pub.heatmap,
     sources |-> pub.sources]

\* error or termination before commit: the transaction rolls back
PublishedAfterAbort(pub, tx) == pub

\* locks are held to the end of the transaction and dropped with it
Released(lk, k) == [v \in DOMAIN lk |-> IF lk[v] = k THEN 0 ELSE lk[v]]

Active == {"called", "heatmap", "sources"}

CanLockAlways(lk, v) == TRUE

\* REFRESH takes an exclusive lock on its view: a second refresh of the same
\* view waits until the transaction holding it ends
CanLock(lk, v) == lk[v] = 0

\* SELECT refresh_temporal_analytics(): the transaction starts, NOW() is fixed
\* database sessions are interchangeable: a call takes the lowest free one
RefreshCall(k) ==
    /\ run[k].pc = "idle"
    /\ \A j \in Runs : j < k => run[j].pc # "idle"
    /\ hist.calls < MaxRefreshes
    /\ run' = [run EXCEPT ![k] = [IdleRun EXCEPT !.pc = "called", !.gen = hist.calls + 1,
                                                 !.txNow = now,
                                                 !.overlapped = \E j \in Runs : run[j].pc \in Active]]
    /\ hist' = [hist EXCEPT !.calls = @ + 1]
    /\ UNCHANGED <<now, ingestVars, mv, lock, cache, sess, report, dashVars>>

\* REFRESH MATERIALIZED VIEW CONCURRENTLY mv_hour_heatmap
RefreshHeatmap(k) ==
    /\ run[k].pc = "called"
    /\ CanLock(lock, "heatmap")
    /\ LET new == [gen |-> run[k].gen, rows |-> HeatmapOf(clicks, run[k].txNow)]
       IN /\ run' = [run EXCEPT ![k].pc = "heatmap", ![k].heatmap = new]
          /\ mv' = PublishedAfterStatement(mv, "heatmap", new)
    /\ lock' = [lock EXCEPT !.heatmap = k]
    /\ hist' = [hist EXCEPT !.insRun = FALSE]
    /\ UNCHANGED <<now, ingestVars, cache, sess, report, dashVars>>

\* REFRESH MATERIALIZED VIEW CONCURRENTLY mv_video_sources
RefreshSources(k) ==
    /\ run[k].pc = "heatmap"
    /\ CanLock(lock, "sources")
    /\ LET new == [gen |-> run[k].gen, rows |-> VideoSourcesOf(clicks, run[k].txNow)]
       IN /\ run' = [run EXCEPT ![k].pc = "sources", ![k].sources = new]
          /\ mv' = PublishedAfterStatement(mv, "sources", new)
    /\ lock' = [lock EXCEPT !.sources = k]
    /\ UNCHANGED <<now, ingestVars, hist, cache, sess, report, dashVars>>

\* END of the function, the transaction commits
RefreshCommit(k) ==
    /\ run[k].pc = "sources"
    /\ mv' = PublishedAfterCommit(mv, run[k])
    /\ lock' = Released(lock, k)
    /\ run' = [run EXCEPT ![k] = IdleRun]
    /\ hist' = [hist EXCEPT !.ins = hist.insRun, !.lastTxNow = run[k].txNow,
                            !.lastOverlapped = run[k].overlapped]
    /\ UNCHANGED <<now, ingestVars, cache, sess, report, dashVars>>

\* a statement raises, or the session is terminated, before the commit
RefreshAbort(k) ==
    /\ run[k].pc \in Active
    /\ mv' = PublishedAfterAbort(mv, run[k])
    /\ lock' = Released(lock, k)
    /\ run' = [run EXCEPT ![k] = IdleRun]
    /\ hist' = [hist EXCEPT !.abortedGen = run[k].gen]
    /\ UNCHANGED <<now, ingestVars, cache, sess, report, dashVars>>

RecreatedViewNoData(rows) == {}

\* CREATE MATERIALIZED VIEW ... AS SELECT fills the new view from its query
RecreatedView(rows) == rows

\* the two views of the last refresh are current: no click was inserted since
\* its snapshot, and every click is in its 90-day window iff it is in today's
RollupsCurrent ==
    /\ mv.heatmap.gen > 0
    /\ ~hist.ins
    /\ \A i \in 1..Len(clicks) : (i \in InWindow(clicks, hist.lastTxNow))
                                      <=> (i \in InWindow(clicks, now))

\* DROP MATERIALIZED VIEW and CREATE MATERIALIZED VIEW again for both views,
\* in one transaction; DROP waits for a refresh that holds the view's lock
RebuildRollups ==
    /\ CanLock(lock, "heatmap") /\ CanLock(lock, "sources")
    /\ hist.calls < MaxRefreshes
    /\ LET g == hist.calls + 1
       IN /\ mv' = [heatmap |-> [gen |-> g, rows |-> RecreatedView(HeatmapOf(clicks, now))],
                    sources |-> [gen |-> g, rows |-> RecreatedView(VideoSourcesOf(clicks, now))]]
          /\ hist' = [hist EXCEPT !.calls = g, !.ins = FALSE, !.insRun = FALSE,
                                  !.lastTxNow = now, !.lastOverlapped = FALSE,
                                  !.rebuiltGen = IF RollupsCurrent THEN g ELSE @]
    /\ UNCHANGED <<now, ingestVars, run, lock, cache, sess, report, dashVars>>

\* the retention window goes by
TickRetention ==
    /\ now < RetentionMins
    /\ now' = now + RetentionMins
    /\ UNCHANGED <<ingestVars, aggVars, hist, cache, sess, report, dashVars>>

Refresh(k) ==
    \/ RefreshCall(k)
    \/ RefreshHeatmap(k)
    \/ RefreshSources(k)
    \/ RefreshCommit(k)
    \/ RefreshAbort(k)

\* redirect requests one at a time, one refresh at a time, a rebuild of the
\* views, the clock, and link deletion
NextAgg ==
    \/ RedirectUrl({"127.0.0.1"}, Referers)
    \/ Refresh(1)
    \/ RebuildRollups
    \/ TickRetention
    \/ DeleteUrl

SpecAgg == Init /\ [][NextAgg]_vars

\* redirect requests one at a time and refreshes called while others run
NextOverlap ==
    \/ RedirectUrl({"127.0.0.1"}, Referers)
    \/ \E k \in Runs : Refresh(k)

SpecOverlap == Init /\ [][NextOverlap]_vars

\* ------------------------------------------------ video projects dashboard

\* the links of the dashboard and their short codes
DashCodeOf == [u \in {"u1", "u2"} |-> IF u = "u1" THEN "abc1" ELSE "abc2"]

\* [A-Za-z0-9_-]
IdChars == {"A", "B", "C", "D", "E", "F", "G", "H", "I", "J", "K", "L",
            "M", "N", "O", "P", "Q", "R", "S", "T", "U", "V", "W", "X",
            "Y", "Z", "a", "b", "c", "d", "e", "f", "g", "h", "i", "j",
            "k", "l", "m", "n", "o", "p", "q", "r", "s", "t", "u", "v",
            "w", "x", "y", "z", "0", "1", "2", "3", "4", "5", "6", "7",
            "8", "9", "_", "-"}

\* the {11} of the video id patterns
IdLen == 11

\* the text has the literal at position i
HasAt(str, i, lit) ==
    /\ i + Len(lit) - 1 <= Len(str)
    /\ SubSeq(str, i, i + Len(lit) - 1) = lit

\* url ~ 'literal'
Contains(str, lit) == \E i \in 1..Len(str) : HasAt(str, i, lit)

\* url ~ 'youtube\.com/watch\?.*v='
IsWatchUrl(str) ==
    LET watch == <<"y", "o", "u", "t", "u", "b", "e", ".", "c", "o", "m", "/", "w", "a", "t", "c", "h", "?">>
    IN \E i \in 1..Len(str), j \in 1..Len(str) :
           /\ HasAt(str, i, watch)
           /\ j >= i + Len(watch)
           /\ HasAt(str, j, <<"v", "=">>)

\* the positions where lit([A-Za-z0-9_-]{11}) matches
IdMatches(str, lit) ==
    {i \in 1..Len(str) :
        /\ HasAt(str, i, lit)
        /\ i + Len(lit) + IdLen - 1 <= Len(str)
        /\ \A n \in 0..(IdLen - 1) : str[i + Len(lit) + n] \in IdChars}

\* substring(url from 'lit([A-Za-z0-9_-]{11})'): the group of the leftmost
\* match, NULL when nothing matches
SubstringId(str, lit) ==
    IF IdMatches(str, lit) = {} THEN NullText
    ELSE LET i == Min(IdMatches(str, lit))
         IN Text(SubSeq(str, i + Len(lit), i + Len(lit) + IdLen - 1))

\* extract_youtube_video_id(url)
ExtractYoutubeVideoId(url) ==
    IF url.null THEN NullText
    ELSE IF IsWatchUrl(url.text) THEN SubstringId(url.text, <<"v", "=">>)
    ELSE IF Contains(url.text, <<"y", "o", "u", "t", "u", ".", "b", "e", "/">>)
         THEN SubstringId(url.text, <<"y", "o", "u", "t", "u", ".", "b", "e", "/">>)
    ELSE IF Contains(url.text, <<"y", "o", "u", "t", "u", "b", "e", ".", "c", "o", "m", "/", "e", "m", "b", "e", "d", "/">>)
         THEN SubstringId(url.text, <<"e", "m", "b", "e", "d", "/">>)
    ELSE IF Contains(url.text, <<"y", "o", "u", "t", "u", "b", "e", ".", "c", "o", "m", "/", "s", "h", "o", "r", "t", "s", "/">>)
         THEN SubstringId(url.text, <<"s", "h", "o", "r", "t", "s", "/">>)
    ELSE NullText

\* SQL's three-valued logic
SqlIsNotNull(a) == IF a.null THEN "false" ELSE "true"

SqlNotEqual(a, b) == IF a.null \/ b.null THEN "unknown"
                     ELSE IF a.text # b.text THEN "true" ELSE "false"

SqlAnd(x, y) == IF x = "false" \/ y = "false" THEN "false"
                ELSE IF x = "unknown" \/ y = "unknown" THEN "unknown"
                ELSE "true"

\* auto_extract_youtube_video_id, BEFORE UPDATE FOR EACH ROW: an IF whose
\* condition is not true does not run its branch
AutoExtractYoutubeVideoId(old, new) ==
    IF SqlAnd(SqlIsNotNull(new.youtube_url),
              SqlNotEqual(new.youtube_url, old.youtube_url)) = "true"
    THEN [new EXCEPT !.youtube_video_id = ExtractYoutubeVideoId(new.youtube_url)]
    ELSE new

\* what the edit form sends as youtube_url: a URL, or null for an empty field
FormUrls == {NullText,
             Text(<<"h", "t", "t", "p", "s", ":", "/", "/", "w", "w", "w", ".", "y", "o", "u", "t", "u", "b", "e", ".", "c", "o", "m", "/", "w", "a", "t", "c", "h", "?", "v", "=", "d", "Q", "w", "4", "w", "9", "W", "g", "X", "c", "Q">>),
             Text(<<"h", "t", "t", "p", "s", ":", "/", "/", "y", "o", "u", "t", "u", ".", "b", "e", "/", "a", "b", "c", "d", "e", "f", "g", "h", "i", "j", "k">>),
             Text(<<"h", "t", "t", "p", "s", ":", "/", "/", "y", "o", "u", "t", "u", ".", "b", "e", "/", "s", "h", "o", "r", "t">>)}

\* PATCH /video-projects/{id}: UPDATE video_projects SET youtube_url = ...
UpdateVideoProject ==
    /\ \E p \in Projects, url \in FormUrls :
         video_projects' = [video_projects EXCEPT ![p] =
             AutoExtractYoutubeVideoId(@, [@ EXCEPT !.youtube_url = url])]
    /\ mvp' = [mvp EXCEPT !.fresh = FALSE]
    /\ UNCHANGED <<now, ingestVars, aggVars, hist, cache, sess, report,
                   project_links, auth>>

\* POST /video-projects/assign: UNIQUE(project_id, url_id)
AssignLinkToProject ==
    /\ \E p \in Projects, u \in DOMAIN DashCodeOf :
         /\ [project_id |-> p, url_id |-> u] \notin project_links
         /\ project_links' = project_links \cup {[project_id |-> p, url_id |-> u]}
    /\ mvp' = [mvp EXCEPT !.fresh = FALSE]
    /\ UNCHANGED <<now, ingestVars, aggVars, hist, cache, sess, report,
                   video_projects, auth>>

\* DELETE /video-projects/assign
RemoveLinkFromProject ==
    /\ \E pl \in project_links : project_links' = project_links \ {pl}
    /\ mvp' = [mvp EXCEPT !.fresh = FALSE]
    /\ UNCHANGED <<now, ingestVars, aggVars, hist, cache, sess, report,
                   video_projects, auth>>

\* GET /{short_code} for a link of the dashboard from a private address, from
\* the lookup to the response
ClickLink ==
    /\ nextEvent <= MaxEvents
    /\ \E u \in DOMAIN DashCodeOf, ip \in PrivateIPs, ua \in UserAgents :
         LET sid == GenerateSessionId(ip, ua, now)
             m == TrackSession(clicks, sid)
             q == [IdleReq EXCEPT !.event = nextEvent, !.code = DashCodeOf[u], !.ip = ip,
                                  !.ua = ua, !.url_id = u,
                                  !.location = LocationAfterCall(ShortCircuitResult),
                                  !.meta = YoutubeMetadata(u),
                                  !.session_id = sid,
                                  !.is_first_click = m.is_first_click,
                                  !.clicks_in_session = m.clicks_in_session,
                                  !.tracked_at = now]
         IN /\ clicks' = ClickRepoCreate(clicks, ClickRow(q, now))
            /\ urls' = IncrementClickCount(urls, u, now)
    /\ nextEvent' = nextEvent + 1
    /\ hist' = NoteInsert
    /\ mvp' = [mvp EXCEPT !.fresh = FALSE]
    /\ UNCHANGED <<now, req, aggVars, cache, sess, report,
                   video_projects, project_links, auth>>

\* FROM video_projects vp LEFT JOIN project_links pl LEFT JOIN urls u
\* LEFT JOIN clicks c, for one project: url_id NULL stands for no link, click
\* 0 for no click
JoinedRows(p, links, u, log) ==
    LET L == {pl.url_id : pl \in {x \in links : x.project_id = p}} \cap DOMAIN u
        C(id) == {i \in 1..Len(log) : log[i].url_id = id}
    IN IF L = {} THEN {[url_id |-> NULL, click |-> 0]}
       ELSE UNION {IF C(id) = {} THEN {[url_id |-> id, click |-> 0]}
                   ELSE {[url_id |-> id, click |-> i] : i \in C(id)} : id \in L}

RECURSIVE SumClickCount(_, _)
SumClickCount(J, u) ==
    IF J = {} THEN 0
    ELSE LET r == CHOOSE x \in J : TRUE
         IN (IF r.url_id = NULL THEN 0 ELSE u[r.url_id].click_count)
            + SumClickCount(J \ {r}, u)

TotalClicksByClickCount(J, u) == SumClickCount(J, u)

\* COUNT(DISTINCT c.id) as total_clicks
TotalClicks(J, u) == Cardinality({r.click : r \in J} \ {0})

\* mv_video_project_performance: GROUP BY vp.id
VideoProjectPerformance(vps, links, u, log) ==
    {LET J == JoinedRows(p, links, u, log)
     IN [project_id       |-> p,
         youtube_video_id |-> vps[p].youtube_video_id,
         youtube_url      |-> vps[p].youtube_url,
         total_links      |-> Cardinality({r.url_id : r \in J} \ {NULL}),
         total_clicks     |-> TotalClicks(J, u),
         unique_visitors  |-> Cardinality({log[r.click].ip_address :
                                              r \in {x \in J : x.click # 0}})] :
        p \in DOMAIN vps}

\* POST /video-projects/refresh-analytics: refresh_video_project_analytics()
RefreshProjectAnalytics ==
    /\ mvp' = [fresh |-> TRUE,
               rows  |-> VideoProjectPerformance(video_projects, project_links, urls, clicks)]
    /\ UNCHANGED <<now, ingestVars, aggVars, hist, cache, sess, report,
                   video_projects, project_links, auth>>

\* -------------------------------------------------------- authentication

RemoveTokenKept(token) == token

\* removeToken(): localStorage.removeItem(TOKEN_KEY)
RemoveToken(token) == NULL

\* isAuthenticated(): getToken() !== null
IsAuthenticated(token) == token # NULL

\* login(password): the request to /auth/login is sent
LoginCall ==
    /\ auth.login = "idle"
    /\ auth' = [auth EXCEPT !.login = "fetching"]
    /\ UNCHANGED <<now, ingestVars, aggVars, hist, cache, sess, report,
                   video_projects, project_links, mvp>>

\* login(password): the response arrives, or fetch throws; the token of an
\* ok response is saved by saveToken
LoginResponse ==
    /\ auth.login = "fetching"
    /\ \E answer \in {"ok", "failed", "threw"} :
         auth' = [auth EXCEPT !.login = "idle",
                              !.token = IF answer = "ok" THEN "token"
                                        ELSE @]
    /\ UNCHANGED <<now, ingestVars, aggVars, hist, cache, sess, report,
                   video_projects, project_links, mvp>>

\* logout(): const token = getToken(); with a token the request to
\* /auth/logout is sent, without one the token is removed at once
LogoutCall ==
    /\ auth.logout \in {"idle", "done"}
    /\ auth' = IF auth.token # NULL
               THEN [auth EXCEPT !.logout = "fetching", !.sent = auth.token,
                                 !.outcome = "", !.had = TRUE]
               ELSE [auth EXCEPT !.logout = "done", !.sent = NULL, !.outcome = "",
                                 !.had = FALSE, !.token = RemoveToken(@)]
    /\ UNCHANGED <<now, ingestVars, aggVars, hist, cache, sess, report,
                   video_projects, project_links, mvp>>

\* logout(): the server answers ok, answers with an error status, or fetch
\* throws and the catch logs it; removeToken() follows in each case
LogoutResponse ==
    /\ auth.logout = "fetching"
    /\ \E answer \in {"ok", "failed", "threw"} :
         auth' = [auth EXCEPT !.logout = "done", !.outcome = answer,
                              !.token = RemoveToken(@)]
    /\ UNCHANGED <<now, ingestVars, aggVars, hist, cache, sess, report,
                   video_projects, project_links, mvp>>

\* the dashboard's links exist, nothing has been clicked yet
InitDashboard ==
    /\ now = 0
    /\ urls = [u \in DOMAIN DashCodeOf |-> [click_count |-> 0, last_clicked_at |-> NULL,
                                     is_active |-> TRUE, original_url |-> SkoolUrl]]
    /\ clicks = <<>>
    /\ nextEvent = 1
    /\ req = [r \in Reqs |-> IdleReq]
    /\ mv = EmptyRollup
    /\ run = [k \in Runs |-> IdleRun]
    /\ lock = [heatmap |-> 0, sources |-> 0]
    /\ hist = [ins |-> FALSE, insRun |-> FALSE, lastTxNow |-> 0,
               calls |-> 0, abortedGen |-> 0, lastOverlapped |-> FALSE,
               rebuiltGen |-> 0, uncounted |-> FALSE]
    /\ cache = <<>>
    /\ sess = IdleSess
    /\ report = NoReport
    /\ video_projects = [p \in Projects |-> MigratedProject]
    /\ project_links = {}
    /\ mvp = NoPerformance
    /\ auth = SignedOut

\* the project pages: edits, link assignment, clicks and refreshes
NextProject ==
    \/ UpdateVideoProject
    \/ AssignLinkToProject
    \/ RemoveLinkFromProject
    \/ ClickLink
    \/ RefreshProjectAnalytics

SpecProject == InitDashboard /\ [][NextProject]_vars

\* the browser signing in and out while links are clicked
NextAuth ==
    \/ LoginCall
    \/ LoginResponse
    \/ LogoutCall
    \/ LogoutResponse
    \/ ClickLink

SpecAuth == InitDashboard /\ [][NextAuth]_vars

\* ------------------------------------------------------------------ claims

RowsOfEvent(e) == {i \in 1..Len(clicks) : clicks[i].event = e}

\* C1: every redirect request that got past click_repo.create has exactly one
\* row in the click log, and no request ever has two or more
ExactlyOneRowPerClick ==
    /\ \A e \in 1..(nextEvent - 1) : Cardinality(RowsOfEvent(e)) <= 1
    /\ \A r \in Reqs :
         (\/ req[r].pc \in {"count", "respond"}
          \/ (req[r].pc = "done" /\ req[r].response = "301")
          \/ (req[r].pc = "done" /\ req[r].failed = "count"))
         => Cardinality(RowsOfEvent(req[r].event)) = 1

RedirectedWithOneRow ==
    \E r \in Reqs : /\ req[r].pc = "done"
                    /\ req[r].response = "301"
                    /\ Cardinality(RowsOfEvent(req[r].event)) = 1
                    /\ Len(clicks) = 2

\* C2: a request for a resolved short code whose tracking failed (the click
\* insert or the counter update raised) still ends with the 301 redirect
TrackingFailureStillRedirects ==
    \A r \in Reqs : (req[r].pc = "done" /\ req[r].failed # "") => req[r].response = "301"

SessionIds == {clicks[i].session_id : i \in 1..Len(clicks)}

SequentialLog ==
    [i \in 1..Len(clicks) |->
        LET m == TrackSession(SubSeq(clicks, 1, i - 1), clicks[i].session_id)
        IN [clicks[i] EXCEPT !.is_first_click = m.is_first_click,
                             !.is_returning_visitor = ~m.is_first_click,
                             !.clicks_in_session = m.clicks_in_session]]

ReadsSeeWholeRollup == mv.heatmap.gen = mv.sources.gen

ReadDuringRefresh ==
    \E k \in Runs : /\ run[k].pc = "sources"
                    /\ lock.heatmap = k
                    /\ mv.heatmap.gen > 0
                    /\ mv.heatmap.gen < run[k].gen
                    /\ run[k].heatmap.rows # mv.heatmap.rows

RowsOf(pub) == [heatmap |-> pub.heatmap.rows, sources |-> pub.sources.rows]

Committing(k) == run[k].pc = "sources" /\ run'[k].pc = "idle" /\ hist'.abortedGen = hist.abortedGen

\* C6 as stated: a refresh that commits with no click inserted since the
\* previous refresh took its snapshot publishes the rollups already published
RefreshIdempotent ==
    [][\A k \in Runs : (Committing(k) /\ ~hist.ins) => RowsOf(mv') = RowsOf(mv)]_vars

SameWindow(t1, t2) ==
    \A i \in 1..Len(clicks) :
        (clicks[i].clicked_at > t1 - RetentionMins) <=> (clicks[i].clicked_at > t2 - RetentionMins)

\* C6 amended: a refresh that commits with no click inserted since the previous
\* refresh took its snapshot, and with no click entering or leaving the 90-day
\* window between the two NOW() values, publishes the rollups already published
RefreshIdempotentInWindow ==
    [][\A k \in Runs :
          (Committing(k) /\ ~hist.ins /\ SameWindow(run[k].txNow, hist.lastTxNow))
          => RowsOf(mv') = RowsOf(mv)]_vars

SecondRefreshSameRollup ==
    \E k \in Runs : /\ run[k].pc = "sources"
                    /\ run[k].gen = 2
                    /\ mv.heatmap.gen = 1
                    /\ ~hist.ins
                    /\ SameWindow(run[k].txNow, hist.lastTxNow)
                    /\ mv.heatmap.rows # {}
                    /\ mv.sources.rows # {}
                    /\ run[k].heatmap.rows = mv.heatmap.rows

ProvidersTriedInOrder ==
    \A r \in Reqs :
        LET c == req[r].calls
        IN /\ Len(c) <= Len(Providers)
           /\ \A i \in 1..Len(c) :
                /\ c[i].provider = Providers[i]
                /\ i < Len(c) => c[i].outcome \in {"error", "timeout"}

ThirdProviderAnswered ==
    \E r \in Reqs : /\ req[r].ip \in PublicIPs
                    /\ Len(req[r].calls) = 3
                    /\ req[r].calls[3].outcome = "ok"
                    /\ req[r].location.provider = "ipinfo.io"

AllProvidersFailed(r) ==
    /\ req[r].pc \notin {"idle", "geo", "resolving"}
    /\ Len(req[r].calls) = Len(Providers)
    /\ \A i \in 1..Len(req[r].calls) : req[r].calls[i].outcome \in {"error", "timeout"}

SameBucket(t1, t2) ==
    \E b \in 0..(t1 + t2) : /\ b * TimeWindowMins <= t1 /\ t1 < (b + 1) * TimeWindowMins
                            /\ b * TimeWindowMins <= t2 /\ t2 < (b + 1) * TimeWindowMins

\* C12: two calls of generate_session_id for the same ip and user agent at
\* times of the same bucket return the same session key
SessionKeyStableInBucket ==
    (sess.calls = 2 /\ SameBucket(sess.t1, sess.t2)) => sess.key1 = sess.key2

SameBucketTwoTimes ==
    /\ sess.calls = 2
    /\ sess.t1 # sess.t2
    /\ SameBucket(sess.t1, sess.t2)
    /\ sess.key1 = sess.key2
    /\ sess.key1 # NoKey

CacheIPs == {cache[i].ip : i \in 1..Len(cache)}

\* C15: the geolocation cache never holds more entries than its capacity
CacheWithinCapacity == Len(cache) <= CacheCapacity

EntryEvicted ==
    /\ Len(cache) = CacheCapacity
    /\ \E i \in 1..Len(clicks) : /\ clicks[i].country_name = CountryOf(clicks[i].ip_address)
                                  /\ clicks[i].ip_address \notin CacheIPs

\* C16: under concurrent requests the cache holds at most one entry per IP and
\* no more than its capacity, every entry holds the result stored for its IP,
\* and a request answered from the cache got the entry stored for its own IP
CacheConsistent ==
    /\ Cardinality({cache[i].key : i \in 1..Len(cache)}) = Len(cache)
    /\ Len(cache) <= CacheCapacity
    /\ \A i \in 1..Len(cache) : cache[i].data.country_name = CountryOf(cache[i].ip)
    /\ \A r \in Reqs :
          req[r].hit # "" => /\ req[r].hit = req[r].ip
                             /\ req[r].location.country_name = CountryOf(req[r].ip)

ConcurrentMissesOneEntry ==
    \E r1 \in Reqs, r2 \in Reqs :
        /\ r1 # r2
        /\ req[r1].ip = req[r2].ip
        /\ req[r1].pc = "enrich" /\ req[r2].pc = "enrich"
        /\ req[r1].calls # <<>> /\ req[r2].calls # <<>>
        /\ req[r1].calls[Len(req[r1].calls)].outcome = "ok"
        /\ req[r2].calls[Len(req[r2].calls)].outcome = "ok"
        /\ CacheIPs = {req[r1].ip}

\* the rollups one refresh, alone, publishes from the log at NOW() = t
SingleRunRollup(log, t) == [heatmap |-> HeatmapOf(log, t), sources |-> VideoSourcesOf(log, t)]

\* C17: once no refresh is running, the last committed refresh started while
\* another one was running, and no click was inserted since it took its
\* snapshot, the published rollups are the ones a single refresh publishes
OverlappingRunsAsSingleRun ==
    ((\A k \in Runs : run[k].pc = "idle") /\ hist.lastOverlapped /\ ~hist.ins)
    => RowsOf(mv) = SingleRunRollup(clicks, hist.lastTxNow)

BothOverlappingRunsCommitted ==
    /\ \A k \in Runs : run[k].pc = "idle"
    /\ hist.lastOverlapped
    /\ ~hist.ins
    /\ hist.abortedGen = 0
    /\ mv.heatmap.gen = 2
    /\ mv.heatmap.rows # {}
    /\ mv.sources.rows # {}

\* C18: no refresh ever holds a lock on clicks that an insert has to wait
\* for, whatever statement of the refresh is in progress
InsertNeverWaits ==
    /\ ~InsertBlocked
    /\ \A k \in Runs : ~LockConflicts(InsertLock, ClicksLock(run[k].pc))

InsertedDuringRefresh ==
    \E k \in Runs : /\ run[k].pc \in {"heatmap", "sources"}
                    /\ lock.heatmap = k
                    /\ hist.insRun
                    /\ Len(clicks) >= 1
                    /\ clicks[Len(clicks)].event = nextEvent - 1

RECURSIVE SumClicks(_)
SumClicks(S) == IF S = {} THEN 0
                ELSE LET x == CHOOSE y \in S : TRUE IN x.clicks + SumClicks(S \ {x})

\* the clicks of a short code with a country name and clicked_at in [from, to]
GeoClicksInRange(code, from, to) ==
    {i \in 1..Len(clicks) : /\ clicks[i].short_code = code
                            /\ clicks[i].country_name # NULL
                            /\ from <= clicks[i].clicked_at
                            /\ clicks[i].clicked_at <= to}

Rebuilding == mv'.heatmap.gen # mv.heatmap.gen /\ run' = run

LocationObtained(q) ==
    \/ q.hit # ""
    \/ \E n \in 1..Len(q.calls) : q.calls[n].outcome = "ok"

NoPlatformNoVideoFields ==
    \A i \in 1..Len(clicks) :
        clicks[i].video_platform = NULL =>
            /\ clicks[i].video_id = NULL
            /\ clicks[i].video_timestamp = NULLINT
            /\ clicks[i].playlist_id = <<>>
            /\ clicks[i].yt_feature = <<>>

\* C23: no request ends because an enrichment step raised
NoEnrichmentRaises == \A r \in Reqs : req[r].failed # "enrich"

\* the row is whole: every enrichment result is in it
WholeRow(row) ==
    /\ DOMAIN row = DOMAIN ClickRow(IdleReq, 0)
    /\ row.session_id # NoKey
    /\ row.country_name # NULL
    /\ row.hour_of_day # NULLINT

\* C24: a request that has not reached the insert, or was killed before it,
\* has no row in the click log, and every row of the log is a whole row
KilledBeforeWriteLeavesNoRow ==
    /\ \A r \in Reqs :
          (\/ req[r].pc \in {"geo", "resolving", "enrich", "create"}
           \/ (req[r].failed = "terminated"
               /\ req[r].at \in {"geo", "resolving", "enrich", "create"}))
          => RowsOfEvent(req[r].event) = {}
    /\ \A i \in 1..Len(clicks) : WholeRow(clicks[i])

KilledMidEnrichment ==
    \E r \in Reqs : /\ req[r].failed = "terminated"
                    /\ req[r].at = "enrich"
                    /\ req[r].event = 2
                    /\ Len(clicks) = 1
                    /\ clicks[1].event = 1

\* the heatmap cells published or computed by a refresh in progress
HeatmapCells == mv.heatmap.rows \cup UNION {run[k].heatmap.rows : k \in Runs}

ActualClicks(u) == Cardinality({i \in 1..Len(clicks) : clicks[i].url_id = u})

\* C27: once every request has ended, and none of them ended between its
\* insert and its counter update, click_count of every url is the number of
\* its rows in clicks
ClickCountMatchesRows ==
    ((\A r \in Reqs : req[r].pc \in {"idle", "done"}) /\ ~hist.uncounted)
    => \A u \in UrlIds : urls[u].click_count = ActualClicks(u)

ConcurrentRedirectsCounted ==
    /\ \A r \in Reqs : req[r].pc = "done" /\ req[r].response = "301"
    /\ \E r1 \in Reqs, r2 \in Reqs : req[r1].event = 1 /\ req[r2].event = 2
    /\ \A r \in Reqs : req[r].tracked_at = 0
    /\ now > 0
    /\ \A u \in UrlIds : urls[u].click_count = 2 /\ ActualClicks(u) = 2

\* the links assigned to a project now
LinksOf(p) == {pl.url_id : pl \in {x \in project_links : x.project_id = p}}

\* C28: while nothing has changed since the last refresh, total_clicks of
\* every project in mv_video_project_performance is the number of click rows
\* of the links assigned to the project; clicks of other links do not count
ProjectClicksOfCurrentLinks ==
    mvp.fresh =>
        /\ {x.project_id : x \in mvp.rows} = Projects
        /\ \A x \in mvp.rows :
              x.total_clicks
                 = Cardinality({i \in 1..Len(clicks) : clicks[i].url_id \in LinksOf(x.project_id)})

RemovedLinkNotCounted ==
    /\ mvp.fresh
    /\ Len(clicks) = 2
    /\ clicks[1].url_id = clicks[2].url_id
    /\ \E p \in Projects : /\ LinksOf(p) # {}
                            /\ clicks[1].url_id \notin LinksOf(p)
    /\ \A x \in mvp.rows : x.total_clicks = 0 /\ x.total_links = 1
    /\ \A u \in DOMAIN urls : urls[u].click_count \in {0, 2}

\* C29: every update that changes youtube_url of a video_projects row to a
\* non-null value leaves youtube_video_id as the id extracted from the new URL
UrlChangeSetsVideoId ==
    [][\A p \in Projects :
          (/\ video_projects'[p].youtube_url # video_projects[p].youtube_url
           /\ ~video_projects'[p].youtube_url.null)
          => video_projects'[p].youtube_video_id
                = ExtractYoutubeVideoId(video_projects'[p].youtube_url)]_vars

\* a step in which logout() completes
LogoutCompletes == auth.logout # "done" /\ auth'.logout = "done"

\* C30: when logout() completes, no token is stored and isAuthenticated() is
\* false, whether the server answered ok, answered with an error, or the
\* request threw
LogoutRemovesToken ==
    [][LogoutCompletes => (auth'.token = NULL /\ ~IsAuthenticated(auth'.token))]_vars

LoggedOutAfterNetworkError ==
    /\ auth.logout = "done"
    /\ auth.had
    /\ auth.sent = "token"
    /\ auth.outcome = "threw"
    /\ auth.token = NULL
    /\ auth.login = "idle"

====
